---- MODULE Spec2Model ----
(***************************************************************************)
(* The firewall learning switch of poxController_firewall.py: the module   *)
(* level _flood_delay, launch, the l2_learning dispatcher and, per switch  *)
(* connection, a LearningSwitch with its macToPort table, its firewall     *)
(* dictionary and its hold_down_expired flag.                              *)
(*                                                                         *)
(* Python values are modelled by integers and strings.  An IPv4 address is *)
(* its 32 bit number, so that the literal 0 the code uses as the wildcard  *)
(* source, the address 0.0.0.0 and the port 0 are one and the same value,  *)
(* as they are for a Python dictionary key (equal and of equal hash).      *)
(* A dictionary is a function from its keys; a tuple is a sequence.        *)
(***************************************************************************)
EXTENDS Integers, Sequences, FiniteSets, TLC

VARIABLES phase, flood_delay, l2_transparent, up, transparent, macToPort,
          firewall, hold_down_expired, connect_time, now, sent, last, added,
          seen

vars == <<phase, flood_delay, l2_transparent, up, transparent, macToPort,
          firewall, hold_down_expired, connect_time, now, sent, last, added,
          seen>>

(***************************************************************************)
(* Bounds of the model.                                                    *)
(***************************************************************************)
MaxRules == 2
MaxTime == 1
MaxDelay == 1
NumPorts == 2

(***************************************************************************)
(* Values.                                                                 *)
(***************************************************************************)
IPAddr(a, b, c, d) == ((a * 256 + b) * 256 + c) * 256 + d

IP1 == IPAddr(10, 0, 0, 1)
IP3 == IPAddr(10, 0, 0, 3)
IP4 == IPAddr(10, 0, 0, 4)

\* the addresses rules and queries are drawn from: the wildcard / 0.0.0.0 and
\* the three addresses of the static rules
Addrs == {0, IP1, IP3, IP4}
\* the destination ports: 0 (no port) and the port of the static rule
HTTP == 80
DstPorts == {0, HTTP}

Switches == {"s1", "s2"}
\* the switch whose session the specifications run
S1 == "s1"

NoOp == [op |-> "none"]

(***************************************************************************)
(* The firewall dictionary.                                                *)
(***************************************************************************)
\* self.firewall[key] = True
DictSet(d, key) == [k \in (DOMAIN d) \cup {key} |-> IF k = key THEN TRUE ELSE d[k]]

\* del self.firewall[key]   (the caller has checked that the key is present)
DictDel(d, key) == [k \in (DOMAIN d) \ {key} |-> d[k]]

EmptyDict == [k \in {} |-> TRUE]

\* the key AddRule stores from its arguments
AddRuleKey(dpidstr, srcipstr, dstipstr, dstport) ==
  IF dstport = 0 THEN <<dpidstr, srcipstr, dstipstr>>
  ELSE IF srcipstr = 0 THEN <<dpidstr, dstipstr, dstport>>
  ELSE <<dpidstr, srcipstr, dstipstr, dstport>>

\* DeleteRuleKey with the two tests in the other order
DeleteRuleKey_SourceFirst(dpidstr, srcipstr, dstipstr, dstport) ==
  IF srcipstr = 0 THEN <<dpidstr, dstipstr, dstport>>
  ELSE IF dstport = 0 THEN <<dpidstr, srcipstr, dstipstr>>
  ELSE <<dpidstr, srcipstr, dstipstr, dstport>>

\* the key DeleteRule deletes from its arguments
DeleteRuleKey(dpidstr, srcipstr, dstipstr, dstport) ==
  IF dstport = 0 THEN <<dpidstr, srcipstr, dstipstr>>
  ELSE IF srcipstr = 0 THEN <<dpidstr, dstipstr, dstport>>
  ELSE <<dpidstr, srcipstr, dstipstr, dstport>>

\* the branch of AddRule and DeleteRule that the arguments take, by the name
\* of the rule it handles
RuleVariant(srcipstr, dstport) ==
  IF dstport = 0 THEN "HostPair"
  ELSE IF srcipstr = 0 THEN "DestService"
  ELSE "FullTuple"

\* AddRuleDict that assigns a new dictionary instead of an item
AddRuleDict_Fresh(fw, dpidstr, srcipstr, dstipstr, dstport) ==
  DictSet(EmptyDict, AddRuleKey(dpidstr, srcipstr, dstipstr, dstport))

\* AddRule on a dictionary
AddRuleDict(fw, dpidstr, srcipstr, dstipstr, dstport) ==
  DictSet(fw, AddRuleKey(dpidstr, srcipstr, dstipstr, dstport))

\* DeleteRule on a dictionary: del raises KeyError on an absent key, which is
\* caught and logged, the dictionary being left as it was
DeleteRuleDict(fw, dpidstr, srcipstr, dstipstr, dstport) ==
  LET key == DeleteRuleKey(dpidstr, srcipstr, dstipstr, dstport)
  IN  IF key \in DOMAIN fw THEN DictDel(fw, key) ELSE fw

\* CheckRule that looks a host pair up only for a query without port
CheckRule_PairNeedsNoPort(fw, dpidstr, srcipstr, dstipstr, dstport) ==
  IF dstport = 0 /\ <<dpidstr, srcipstr, dstipstr>> \in DOMAIN fw
  THEN fw[<<dpidstr, srcipstr, dstipstr>>]
  ELSE IF <<dpidstr, dstipstr, dstport>> \in DOMAIN fw
       THEN fw[<<dpidstr, dstipstr, dstport>>]
       ELSE FALSE

\* CheckRule that looks a destination service up only for the wildcard source
CheckRule_ServiceNeedsWildcard(fw, dpidstr, srcipstr, dstipstr, dstport) ==
  IF <<dpidstr, srcipstr, dstipstr>> \in DOMAIN fw
  THEN fw[<<dpidstr, srcipstr, dstipstr>>]
  ELSE IF srcipstr = 0 /\ <<dpidstr, dstipstr, dstport>> \in DOMAIN fw
       THEN fw[<<dpidstr, dstipstr, dstport>>]
       ELSE FALSE

\* CheckRule that looks the key of four items up as well
CheckRule_FullTuple(fw, dpidstr, srcipstr, dstipstr, dstport) ==
  IF <<dpidstr, srcipstr, dstipstr>> \in DOMAIN fw
  THEN fw[<<dpidstr, srcipstr, dstipstr>>]
  ELSE IF <<dpidstr, dstipstr, dstport>> \in DOMAIN fw
       THEN fw[<<dpidstr, dstipstr, dstport>>]
       ELSE IF <<dpidstr, srcipstr, dstipstr, dstport>> \in DOMAIN fw
            THEN fw[<<dpidstr, srcipstr, dstipstr, dstport>>]
            ELSE FALSE

\* CheckRule: the entry of the host pair key, else the entry of the
\* destination service key, else False
CheckRule(fw, dpidstr, srcipstr, dstipstr, dstport) ==
  IF <<dpidstr, srcipstr, dstipstr>> \in DOMAIN fw
  THEN fw[<<dpidstr, srcipstr, dstipstr>>]
  ELSE IF <<dpidstr, dstipstr, dstport>> \in DOMAIN fw
       THEN fw[<<dpidstr, dstipstr, dstport>>]
       ELSE FALSE

\* the firewall of a new LearningSwitch: the two static rules
InitialFirewall(dpidstr) ==
  AddRuleDict(AddRuleDict(EmptyDict, dpidstr, IP1, IP4, 0), dpidstr, 0, IP3, HTTP)

\* the rules of a new LearningSwitch by the branch of AddRule that added them
InitialAdded(dpidstr) ==
  { <<"HostPair", <<dpidstr, IP1, IP4>>>>, <<"DestService", <<dpidstr, IP3, HTTP>>>> }

(***************************************************************************)
(* Packets and OpenFlow messages.                                          *)
(***************************************************************************)
\* Ethernet addresses, as their six bytes
U1 == <<0, 0, 0, 0, 0, 1>>
U2 == <<0, 0, 0, 0, 0, 2>>
BROADCAST == <<255, 255, 255, 255, 255, 255>>
STP == <<1, 128, 194, 0, 0, 0>>

SrcMacs == {U1, U2}
DstMacs == {U1, U2, BROADCAST, STP}

\* packet.dst.is_multicast: the group bit of the first byte
is_multicast(mac) == mac[1] % 2 = 1

\* packet.dst.isBridgeFiltered(): 01-80-C2-00-00-00 to 01-80-C2-00-00-0F
isBridgeFiltered(mac) ==
  /\ mac[1] = 1 /\ mac[2] = 128 /\ mac[3] = 194
  /\ mac[4] = 0 /\ mac[5] = 0 /\ mac[6] <= 15

Ports == 1 .. NumPorts

\* event.ofp.buffer_id: None for a packet the switch did not buffer
BufferIds == {"None", "buf"}

\* packet.next by its class; "lldp" is the payload of a frame whose type is
\* LLDP_TYPE, "other" any payload that is none of the classes the code tests
NetLayers == {"ipv4", "arp", "ipv6", "lldp", "other"}

\* the IPv4 packets: 10.0.0.1 to 10.0.0.4 with no TCP segment, and 10.0.0.1
\* to 10.0.0.3 with a TCP segment to port 80
Ipv4Packets ==
  { [nl |-> "ipv4", srcip |-> IP1, dstip |-> IP4, tcp |-> FALSE, dstport |-> 0],
    [nl |-> "ipv4", srcip |-> IP1, dstip |-> IP3, tcp |-> TRUE, dstport |-> HTTP] }

\* the packets that are not IPv4; srcip and dstip of the ARP packet are its
\* protosrc and protodst, those of the static host pair rule
OtherPackets ==
  { [nl |-> n, srcip |-> 0, dstip |-> 0, tcp |-> FALSE, dstport |-> 0]
      : n \in NetLayers \ {"ipv4", "arp"} }
    \cup { [nl |-> "arp", srcip |-> IP1, dstip |-> IP4, tcp |-> FALSE,
            dstport |-> 0] }

\* a packet-in event: the parsed packet, event.port and event.ofp.buffer_id
Events ==
  { [src |-> s, dst |-> d, port |-> p, buffer_id |-> b, next |-> n]
      : s \in SrcMacs, d \in DstMacs, p \in Ports, b \in BufferIds,
        n \in Ipv4Packets \cup OtherPackets }

OFPP_FLOOD == 65531

\* ofp_packet_out
PacketOut(actions, buffer_id, in_port) ==
  [type |-> "packet_out", actions |-> actions, buffer_id |-> buffer_id,
   in_port |-> in_port, idle_timeout |-> 0, hard_timeout |-> 0,
   match |-> <<>>]

\* ofp_flow_mod
FlowMod(match, idle, hard, actions, buffer_id) ==
  [type |-> "flow_mod", actions |-> actions, buffer_id |-> buffer_id,
   in_port |-> 0, idle_timeout |-> idle, hard_timeout |-> hard,
   match |-> match]

\* of.ofp_match.from_packet(packet, in_port): in_port is 0 when not given
from_packet(event, in_port) == <<in_port, event.src, event.dst, event.next.nl>>

(***************************************************************************)
(* The handler of a packet-in event.                                       *)
(***************************************************************************)
\* flood that floods only after the delay, not at it
flood_AfterDelayOnly(sw, event) ==
  IF now - connect_time[sw] > flood_delay
  THEN [hold_down_expired |-> TRUE,
        sent |-> <<PacketOut(<<OFPP_FLOOD>>, event.buffer_id, event.port)>>]
  ELSE [hold_down_expired |-> hold_down_expired[sw],
        sent |-> <<PacketOut(<<>>, event.buffer_id, event.port)>>]

\* flood that sends its message only when it floods
flood_SilentHoldDown(sw, event) ==
  IF now - connect_time[sw] >= flood_delay
  THEN [hold_down_expired |-> TRUE,
        sent |-> <<PacketOut(<<OFPP_FLOOD>>, event.buffer_id, event.port)>>]
  ELSE [hold_down_expired |-> hold_down_expired[sw], sent |-> <<>>]

\* flood(): the hold_down_expired flag after the call and the message sent
flood(sw, event) ==
  IF now - connect_time[sw] >= flood_delay
  THEN [hold_down_expired |-> TRUE,
        sent |-> <<PacketOut(<<OFPP_FLOOD>>, event.buffer_id, event.port)>>]
  ELSE [hold_down_expired |-> hold_down_expired[sw],
        sent |-> <<PacketOut(<<>>, event.buffer_id, event.port)>>]

\* drop with an if in place of the elif: the buffered packet is released
\* after the install of the flow as well
drop_FlowAndRelease(sw, event, duration) ==
  LET flow == IF duration # <<>>
              THEN LET d == IF Len(duration) = 1
                            THEN <<duration[1], duration[1]>> ELSE duration
                   IN  <<FlowMod(from_packet(event, 0), d[1], d[2], <<>>,
                                 event.buffer_id)>>
              ELSE <<>>
      release == IF event.buffer_id # "None"
                 THEN <<PacketOut(<<>>, event.buffer_id, event.port)>>
                 ELSE <<>>
  IN  [hold_down_expired |-> hold_down_expired[sw], sent |-> flow \o release]

\* drop(duration): the messages sent; duration is <<>> for None, <<d>> for a
\* number and <<idle, hard>> for a tuple
drop(sw, event, duration) ==
  IF duration # <<>>
  THEN LET d == IF Len(duration) = 1 THEN <<duration[1], duration[1]>> ELSE duration
       IN  [hold_down_expired |-> hold_down_expired[sw],
            sent |-> <<FlowMod(from_packet(event, 0), d[1], d[2], <<>>, event.buffer_id)>>]
  ELSE IF event.buffer_id # "None"
       THEN [hold_down_expired |-> hold_down_expired[sw],
             sent |-> <<PacketOut(<<>>, event.buffer_id, event.port)>>]
       ELSE [hold_down_expired |-> hold_down_expired[sw], sent |-> <<>>]

\* the learning step placed after the firewall gate and the IPv6 rule
Learn_UnlessDropped(sw, event) ==
  IF \/ event.next.nl = "ipv6"
     \/ /\ event.next.nl = "ipv4"
        /\ CheckRule(firewall[sw], sw, event.next.srcip, event.next.dstip,
                     IF event.next.tcp THEN event.next.dstport ELSE 0) = TRUE
  THEN macToPort[sw]
  ELSE [m \in (DOMAIN macToPort[sw]) \cup {event.src} |->
          IF m = event.src THEN event.port ELSE macToPort[sw][m]]

\* the learning step that keeps the port of an address it knows already
Learn_KeepFirst(sw, event) ==
  [m \in (DOMAIN macToPort[sw]) \cup {event.src} |->
     IF m \in DOMAIN macToPort[sw] THEN macToPort[sw][m] ELSE event.port]

\* self.macToPort[packet.src] = event.port
Learn(sw, event) ==
  [m \in (DOMAIN macToPort[sw]) \cup {event.src} |->
     IF m = event.src THEN event.port ELSE macToPort[sw][m]]

\* the firewall gate applied to the addresses of every packet, ARP included
Blocked_AnyLayer(sw, event) ==
  CheckRule(firewall[sw], sw, event.next.srcip, event.next.dstip,
            IF event.next.tcp THEN event.next.dstport ELSE 0) = TRUE

\* the firewall gate of an IPv4 packet: CheckRule with the port of the TCP
\* segment, or with 0 when the packet has none
Blocked(sw, event) ==
  /\ event.next.nl = "ipv4"
  /\ CheckRule(firewall[sw], sw, event.next.srcip, event.next.dstip,
               IF event.next.tcp THEN event.next.dstport ELSE 0) = TRUE

\* the link-local gate without the test of the transparent mode
LinkLocal_AlwaysFilters(sw, event) ==
  event.next.nl = "lldp" \/ isBridgeFiltered(event.dst)

\* the link-local gate
LinkLocal(sw, event) ==
  /\ ~transparent[sw]
  /\ event.next.nl = "lldp" \/ isBridgeFiltered(event.dst)

\* the install of a flow to the learned port
Forward(sw, event, port) ==
  [hold_down_expired |-> hold_down_expired[sw],
   sent |-> <<FlowMod(from_packet(event, event.port), 10, 30, <<port>>,
                      event.buffer_id)>>]

\* Decide without the IPv6 rule
Decide_Ipv6Passes(sw, event, table) ==
  IF Blocked(sw, event) THEN drop(sw, event, <<>>)
  ELSE IF LinkLocal(sw, event) THEN drop(sw, event, <<>>)
  ELSE IF is_multicast(event.dst) THEN flood(sw, event)
  ELSE IF event.dst \notin DOMAIN table THEN flood(sw, event)
  ELSE IF table[event.dst] = event.port THEN drop(sw, event, <<10>>)
  ELSE Forward(sw, event, table[event.dst])

\* Decide that drops the packets to an unknown destination
Decide_UnknownDropped(sw, event, table) ==
  IF Blocked(sw, event) THEN drop(sw, event, <<>>)
  ELSE IF event.next.nl = "ipv6" THEN drop(sw, event, <<>>)
  ELSE IF LinkLocal(sw, event) THEN drop(sw, event, <<>>)
  ELSE IF is_multicast(event.dst) THEN flood(sw, event)
  ELSE IF event.dst \notin DOMAIN table THEN drop(sw, event, <<>>)
  ELSE IF table[event.dst] = event.port THEN drop(sw, event, <<10>>)
  ELSE Forward(sw, event, table[event.dst])

\* Decide without the test of the output port against the input port
Decide_NoLoopGuard(sw, event, table) ==
  IF Blocked(sw, event) THEN drop(sw, event, <<>>)
  ELSE IF event.next.nl = "ipv6" THEN drop(sw, event, <<>>)
  ELSE IF LinkLocal(sw, event) THEN drop(sw, event, <<>>)
  ELSE IF is_multicast(event.dst) THEN flood(sw, event)
  ELSE IF event.dst \notin DOMAIN table THEN flood(sw, event)
  ELSE Forward(sw, event, table[event.dst])

\* Decide with the firewall gate placed after the multicast and the unknown
\* destination steps
Decide_FloodBeforeFirewall(sw, event, table) ==
  IF event.next.nl = "ipv6" THEN drop(sw, event, <<>>)
  ELSE IF LinkLocal(sw, event) THEN drop(sw, event, <<>>)
  ELSE IF is_multicast(event.dst) THEN flood(sw, event)
  ELSE IF event.dst \notin DOMAIN table THEN flood(sw, event)
  ELSE IF Blocked(sw, event) THEN drop(sw, event, <<>>)
  ELSE IF table[event.dst] = event.port THEN drop(sw, event, <<10>>)
  ELSE Forward(sw, event, table[event.dst])

\* the steps of _handle_PacketIn after the learning step, with the table as
\* learned
Decide(sw, event, table) ==
  IF Blocked(sw, event) THEN drop(sw, event, <<>>)
  ELSE IF event.next.nl = "ipv6" THEN drop(sw, event, <<>>)
  ELSE IF LinkLocal(sw, event) THEN drop(sw, event, <<>>)
  ELSE IF is_multicast(event.dst) THEN flood(sw, event)
  ELSE IF event.dst \notin DOMAIN table THEN flood(sw, event)
  ELSE IF table[event.dst] = event.port THEN drop(sw, event, <<10>>)
  ELSE Forward(sw, event, table[event.dst])

(***************************************************************************)
(* Actions.                                                                *)
(***************************************************************************)
EmptyTable == [m \in {} |-> 0]

Init ==
  /\ phase = "boot"
  /\ flood_delay = 0
  /\ l2_transparent = FALSE
  /\ up = {}
  /\ transparent = [sw \in Switches |-> FALSE]
  /\ macToPort = [sw \in Switches |-> EmptyTable]
  /\ firewall = [sw \in Switches |-> EmptyDict]
  /\ hold_down_expired = [sw \in Switches |-> FALSE]
  /\ connect_time = [sw \in Switches |-> 0]
  /\ now = 0
  /\ sent = <<>>
  /\ last = NoOp
  /\ added = [sw \in Switches |-> {}]
  /\ seen = [sw \in Switches |-> EmptyTable]

\* the decimal digits
DigitChars == <<"0", "1", "2", "3", "4", "5", "6", "7", "8", "9">>

DigitValue(c) == CHOOSE v \in 0 .. 9 : DigitChars[v + 1] = c

RECURSIVE DigitsValue(_)
DigitsValue(digits) ==
  IF digits = <<>> THEN 0
  ELSE DigitsValue(SubSeq(digits, 1, Len(digits) - 1)) * 10
         + DigitValue(digits[Len(digits)])

\* str(n) of a number n >= 0
RECURSIVE Decimal(_)
Decimal(n) ==
  IF n < 10 THEN <<DigitChars[n + 1]>>
  ELSE Append(Decimal(n \div 10), DigitChars[(n % 10) + 1])

\* int(text, 10) of a text of digits with an optional sign: whether int()
\* accepts the text (else it raises ValueError) and the number it returns
ParseInt(text) ==
  LET signed == Len(text) > 0 /\ text[1] \in {"-", "+"}
      digits == IF signed THEN Tail(text) ELSE text
      numeric == /\ Len(digits) > 0
                 /\ \A i \in 1 .. Len(digits) :
                      \E v \in 0 .. 9 : DigitChars[v + 1] = digits[i]
  IN  IF ~numeric THEN [numeric |-> FALSE, value |-> 0]
      ELSE [numeric |-> TRUE,
            value |-> IF signed /\ text[1] = "-" THEN 0 - DigitsValue(digits)
                      ELSE DigitsValue(digits)]

\* str(hold_down) for the values of hold_down on the command line: the
\* numbers up to MaxDelay, a negative number, and texts that are no integer
HoldDownTexts ==
  { Decimal(n) : n \in 0 .. MaxDelay }
    \cup { <<"-", "1">>, <<"x">>, <<>>, <<"0", ".", "5">> }

\* int(str(hold_down), 10) for these values
HoldDowns == { ParseInt(text) : text \in HoldDownTexts }

\* launch without the assert
Launch_NoAssert(t, hold_down) ==
  /\ phase = "boot"
  /\ flood_delay' = IF hold_down.numeric THEN hold_down.value ELSE flood_delay
  /\ IF hold_down.numeric
     THEN phase' = "running" /\ l2_transparent' = t
     ELSE phase' = "fatal" /\ UNCHANGED l2_transparent
  /\ UNCHANGED <<up, transparent, macToPort, firewall, hold_down_expired,
                 connect_time, now, sent, last, added, seen>>

\* launch(transparent, hold_down)
Launch(t, hold_down) ==
  /\ phase = "boot"
  /\ flood_delay' = IF hold_down.numeric THEN hold_down.value ELSE flood_delay
  /\ IF hold_down.numeric /\ hold_down.value >= 0
     THEN phase' = "running" /\ l2_transparent' = t
     ELSE phase' = "fatal" /\ UNCHANGED l2_transparent
  /\ UNCHANGED <<up, transparent, macToPort, firewall, hold_down_expired,
                 connect_time, now, sent, last, added, seen>>

\* l2_learning._handle_ConnectionUp: LearningSwitch(event.connection, transparent)
ConnectionUp(sw) ==
  /\ phase = "running"
  /\ last = NoOp
  /\ sw \notin up
  /\ up' = up \cup {sw}
  /\ transparent' = [transparent EXCEPT ![sw] = l2_transparent]
  /\ macToPort' = [macToPort EXCEPT ![sw] = EmptyTable]
  /\ firewall' = [firewall EXCEPT ![sw] = InitialFirewall(sw)]
  /\ hold_down_expired' = [hold_down_expired EXCEPT ![sw] = (flood_delay = 0)]
  /\ connect_time' = [connect_time EXCEPT ![sw] = now]
  /\ added' = [added EXCEPT ![sw] = InitialAdded(sw)]
  /\ seen' = [seen EXCEPT ![sw] = EmptyTable]
  /\ UNCHANGED <<phase, flood_delay, l2_transparent, now, sent, last>>

\* time.time() advances (counted from the first connection)
Tick ==
  /\ up # {}
  /\ last = NoOp
  /\ now < MaxTime
  /\ now' = now + 1
  /\ UNCHANGED <<phase, flood_delay, l2_transparent, up, transparent, macToPort,
                 firewall, hold_down_expired, connect_time, sent, last, added, seen>>

\* PacketIn with macToPort an attribute of the class, one table for all the
\* sessions
PacketIn_SharedTable(sw, event) ==
  /\ sw \in up
  /\ last = NoOp
  /\ LET table == Learn(sw, event)
         r == Decide(sw, event, table)
     IN  /\ macToPort' = [w \in Switches |-> table]
         /\ hold_down_expired' = [hold_down_expired EXCEPT ![sw] = r.hold_down_expired]
         /\ sent' = r.sent
  /\ seen' = [seen EXCEPT ![sw] =
                [m \in (DOMAIN seen[sw]) \cup {event.src} |->
                   IF m = event.src THEN event.port ELSE seen[sw][m]]]
  /\ last' = [op |-> "PacketIn", sw |-> sw, event |-> event,
              macToPort |-> macToPort[sw],
              hold_down_expired |-> hold_down_expired[sw]]
  /\ UNCHANGED <<phase, flood_delay, l2_transparent, up, transparent, firewall,
                 connect_time, now, added>>

\* PacketIn that looks the destination up in the table as it was before the
\* source was learned
PacketIn_LearnLast(sw, event) ==
  /\ sw \in up
  /\ last = NoOp
  /\ LET table == Learn(sw, event)
         r == Decide(sw, event, macToPort[sw])
     IN  /\ macToPort' = [macToPort EXCEPT ![sw] = table]
         /\ hold_down_expired' = [hold_down_expired EXCEPT ![sw] = r.hold_down_expired]
         /\ sent' = r.sent
  /\ seen' = [seen EXCEPT ![sw] =
                [m \in (DOMAIN seen[sw]) \cup {event.src} |->
                   IF m = event.src THEN event.port ELSE seen[sw][m]]]
  /\ last' = [op |-> "PacketIn", sw |-> sw, event |-> event,
              macToPort |-> macToPort[sw],
              hold_down_expired |-> hold_down_expired[sw]]
  /\ UNCHANGED <<phase, flood_delay, l2_transparent, up, transparent, firewall,
                 connect_time, now, added>>

\* LearningSwitch._handle_PacketIn of the session of switch sw
PacketIn(sw, event) ==
  /\ sw \in up
  /\ last = NoOp
  /\ LET table == Learn(sw, event)
         r == Decide(sw, event, table)
     IN  /\ macToPort' = [macToPort EXCEPT ![sw] = table]
         /\ hold_down_expired' = [hold_down_expired EXCEPT ![sw] = r.hold_down_expired]
         /\ sent' = r.sent
  /\ seen' = [seen EXCEPT ![sw] =
                [m \in (DOMAIN seen[sw]) \cup {event.src} |->
                   IF m = event.src THEN event.port ELSE seen[sw][m]]]
  /\ last' = [op |-> "PacketIn", sw |-> sw, event |-> event,
              macToPort |-> macToPort[sw],
              hold_down_expired |-> hold_down_expired[sw]]
  /\ UNCHANGED <<phase, flood_delay, l2_transparent, up, transparent, firewall,
                 connect_time, now, added>>

\* LearningSwitch.AddRule of the session of switch sw
AddRule(sw, dpidstr, srcipstr, dstipstr, dstport) ==
  /\ sw \in up
  /\ last = NoOp
  /\ LET fw == AddRuleDict(firewall[sw], dpidstr, srcipstr, dstipstr, dstport)
     IN  /\ Cardinality(DOMAIN fw) <= MaxRules
         /\ firewall' = [firewall EXCEPT ![sw] = fw]
  /\ added' = [added EXCEPT ![sw] = @ \cup
                 {<<RuleVariant(srcipstr, dstport),
                    AddRuleKey(dpidstr, srcipstr, dstipstr, dstport)>>}]
  /\ last' = [op |-> "AddRule", sw |-> sw,
              args |-> <<dpidstr, srcipstr, dstipstr, dstport>>,
              firewall |-> firewall[sw], result |-> TRUE]
  /\ UNCHANGED <<phase, flood_delay, l2_transparent, up, transparent, macToPort,
                 hold_down_expired, connect_time, now, sent, seen>>

\* LearningSwitch.DeleteRule of the session of switch sw; the result is
\* whether the rule was found (else the KeyError is logged)
DeleteRule(sw, dpidstr, srcipstr, dstipstr, dstport) ==
  /\ sw \in up
  /\ last = NoOp
  /\ firewall' = [firewall EXCEPT ![sw] =
                    DeleteRuleDict(@, dpidstr, srcipstr, dstipstr, dstport)]
  /\ added' = [added EXCEPT ![sw] = @ \
                 {<<RuleVariant(srcipstr, dstport),
                    DeleteRuleKey(dpidstr, srcipstr, dstipstr, dstport)>>}]
  /\ last' = [op |-> "DeleteRule", sw |-> sw,
              args |-> <<dpidstr, srcipstr, dstipstr, dstport>>,
              firewall |-> firewall[sw],
              result |-> DeleteRuleKey(dpidstr, srcipstr, dstipstr, dstport)
                           \in DOMAIN firewall[sw]]
  /\ UNCHANGED <<phase, flood_delay, l2_transparent, up, transparent, macToPort,
                 hold_down_expired, connect_time, now, sent, seen>>

\* a call of LearningSwitch.CheckRule of the session of switch sw
CheckRuleCall(sw, dpidstr, srcipstr, dstipstr, dstport) ==
  /\ sw \in up
  /\ last = NoOp
  /\ last' = [op |-> "CheckRule", sw |-> sw,
              args |-> <<dpidstr, srcipstr, dstipstr, dstport>>,
              firewall |-> firewall[sw],
              result |-> CheckRule(firewall[sw], dpidstr, srcipstr, dstipstr, dstport)]
  /\ UNCHANGED <<phase, flood_delay, l2_transparent, up, transparent, macToPort,
                 firewall, hold_down_expired, connect_time, now, sent, added, seen>>

\* the handler or call has returned, its messages have left on the connection
\* (send does not wait), and the controller takes the next event
Return ==
  /\ last # NoOp
  /\ last' = NoOp
  /\ sent' = <<>>
  /\ UNCHANGED <<phase, flood_delay, l2_transparent, up, transparent, macToPort,
                 firewall, hold_down_expired, connect_time, now, added, seen>>

(***************************************************************************)
(* Specifications.                                                         *)
(***************************************************************************)
\* the controller from its start, with the session of one switch, packet-in
\* events, and the static rules deleted and added again
StaticRules == { <<IP1, IP4, 0>>, <<0, IP3, HTTP>> }

Next ==
  \/ \E t \in BOOLEAN, h \in HoldDowns : Launch(t, h)
  \/ ConnectionUp(S1)
  \/ Tick
  \/ \E e \in Events : PacketIn(S1, e)
  \/ \E r \in StaticRules : AddRule(S1, S1, r[1], r[2], r[3])
  \/ \E r \in StaticRules : DeleteRule(S1, S1, r[1], r[2], r[3])
  \/ Return

Spec == Init /\ [][Next]_vars

\* the rule operations of one session, started with the default configuration
InitFW ==
  /\ phase = "running"
  /\ flood_delay = 0
  /\ l2_transparent = FALSE
  /\ up = {S1}
  /\ transparent = [sw \in Switches |-> FALSE]
  /\ macToPort = [sw \in Switches |-> EmptyTable]
  /\ firewall = [sw \in Switches |-> IF sw = S1 THEN InitialFirewall(sw) ELSE EmptyDict]
  /\ hold_down_expired = [sw \in Switches |-> sw = S1]
  /\ connect_time = [sw \in Switches |-> 0]
  /\ now = 0
  /\ sent = <<>>
  /\ last = NoOp
  /\ added = [sw \in Switches |-> IF sw = S1 THEN InitialAdded(sw) ELSE {}]
  /\ seen = [sw \in Switches |-> EmptyTable]

NextFW ==
  \/ \E s \in Addrs, d \in Addrs, p \in DstPorts : AddRule(S1, S1, s, d, p)
  \/ \E s \in Addrs, d \in Addrs, p \in DstPorts : DeleteRule(S1, S1, s, d, p)
  \/ \E w \in Switches, s \in Addrs, d \in Addrs, p \in DstPorts :
        CheckRuleCall(S1, w, s, d, p)
  \/ Return

SpecFW == InitFW /\ [][NextFW]_vars

\* the sessions of two switches, after launch(hold_down = MaxDelay): their
\* connections, the clock, IPv4 packets from 10.0.0.1 to 10.0.0.4 for the host
\* U1, and the static host pair rule of each session deleted and added again
InitIso ==
  /\ phase = "running"
  /\ flood_delay = MaxDelay
  /\ l2_transparent = FALSE
  /\ up = {}
  /\ transparent = [sw \in Switches |-> FALSE]
  /\ macToPort = [sw \in Switches |-> EmptyTable]
  /\ firewall = [sw \in Switches |-> EmptyDict]
  /\ hold_down_expired = [sw \in Switches |-> FALSE]
  /\ connect_time = [sw \in Switches |-> 0]
  /\ now = 0
  /\ sent = <<>>
  /\ last = NoOp
  /\ added = [sw \in Switches |-> {}]
  /\ seen = [sw \in Switches |-> EmptyTable]

IsoEvents ==
  { [src |-> s, dst |-> U1, port |-> p, buffer_id |-> "buf",
     next |-> [nl |-> "ipv4", srcip |-> IP1, dstip |-> IP4, tcp |-> FALSE,
               dstport |-> 0]]
      : s \in SrcMacs, p \in Ports }

NextIso ==
  \/ \E sw \in Switches : ConnectionUp(sw)
  \/ Tick
  \/ \E sw \in Switches, e \in IsoEvents : PacketIn(sw, e)
  \/ \E sw \in Switches : AddRule(sw, sw, IP1, IP4, 0)
  \/ \E sw \in Switches : DeleteRule(sw, sw, IP1, IP4, 0)
  \/ Return

SpecIso == InitIso /\ [][NextIso]_vars

(***************************************************************************)
(* Claims about the rule store, under SpecFW.                              *)
(***************************************************************************)
\* an address that no rule of the model names
IP9 == IPAddr(10, 0, 0, 9)

\* C1: CheckRule returns a Boolean, and it returns block exactly when a rule
\* that AddRule stored as a HostPair for (switch, source, destination), or one
\* that it stored as a DestService for (switch, destination, port), is in
\* the store.
C1_BlockIffRuleOfItsVariant ==
  last.op = "CheckRule" =>
    LET a == last.args
    IN  /\ last.result \in BOOLEAN
        /\ (last.result = TRUE) <=>
             \/ <<"HostPair", <<a[1], a[2], a[3]>>>> \in added[last.sw]
             \/ <<"DestService", <<a[1], a[3], a[4]>>>> \in added[last.sw]

\* C2: a HostPair rule that was added and not deleted since blocks the
\* queries of its switch, source and destination for every port, whatever
\* else was added or deleted; the call of CheckRule returns block for it.
C2_HostPairBlocksEveryPort ==
  /\ \A sw \in up : \A r \in added[sw] :
       r[1] = "HostPair" =>
         \A p \in DstPorts \cup {12345} :
           CheckRule(firewall[sw], r[2][1], r[2][2], r[2][3], p) = TRUE
  /\ last.op = "CheckRule" =>
       (<<"HostPair", <<last.args[1], last.args[2], last.args[3]>>>> \in added[last.sw]
          => last.result = TRUE)

\* a query with a port for the host pair of the static rule is blocked, after
\* the other static rule was deleted
C2_Witness ==
  /\ last.op = "CheckRule"
  /\ last.args = <<S1, IP1, IP4, HTTP>>
  /\ last.result = TRUE
  /\ <<"HostPair", <<S1, IP1, IP4>>>> \in added[S1]
  /\ <<S1, IP3, HTTP>> \notin DOMAIN firewall[S1]

\* C3: a DestService rule that was added (with the wildcard source) and not
\* deleted since blocks the queries of its switch, destination and port for
\* every source; the call of CheckRule returns block for it.
C3_DestServiceBlocksEverySource ==
  /\ \A sw \in up : \A r \in added[sw] :
       r[1] = "DestService" =>
         \A src \in Addrs \cup {IP9} :
           CheckRule(firewall[sw], r[2][1], src, r[2][2], r[2][3]) = TRUE
  /\ last.op = "CheckRule" =>
       (<<"DestService", <<last.args[1], last.args[3], last.args[4]>>>> \in added[last.sw]
          => last.result = TRUE)

\* a query from a source for the destination service of the static rule is
\* blocked, after the other static rule was deleted
C3_Witness ==
  /\ last.op = "CheckRule"
  /\ last.args = <<S1, IP1, IP3, HTTP>>
  /\ last.result = TRUE
  /\ <<"DestService", <<S1, IP3, HTTP>>>> \in added[S1]
  /\ <<S1, IP1, IP4>> \notin DOMAIN firewall[S1]

\* C4, as claimed: after DeleteRule, CheckRule with the same arguments
\* returns allow.
C4_DeleteThenCheckAllows ==
  last.op = "DeleteRule" =>
    CheckRule(firewall[last.sw], last.args[1], last.args[2], last.args[3],
              last.args[4]) = FALSE

\* C4, amended: after DeleteRule the rule that AddRule stores for the same
\* arguments is not in the store and the rest of the store is as before, and
\* CheckRule with the same arguments returns block exactly when another rule
\* of the store before the call has the host pair key or the destination
\* service key of the query.
C4_DeleteThenCheck ==
  last.op = "DeleteRule" =>
    LET a == last.args
        key == AddRuleKey(a[1], a[2], a[3], a[4])
        fw == firewall[last.sw]
    IN  /\ key \notin DOMAIN fw
        /\ DOMAIN fw = (DOMAIN last.firewall) \ {key}
        /\ (CheckRule(fw, a[1], a[2], a[3], a[4]) = TRUE) <=>
             \E k \in (DOMAIN last.firewall) \ {key} :
               k = <<a[1], a[2], a[3]>> \/ k = <<a[1], a[3], a[4]>>

\* the static host pair rule is deleted: the query that it blocked is allowed
C4_Witness ==
  /\ last.op = "DeleteRule"
  /\ last.args = <<S1, IP1, IP4, 0>>
  /\ last.result = TRUE
  /\ CheckRule(last.firewall, S1, IP1, IP4, 0) = TRUE
  /\ CheckRule(firewall[S1], S1, IP1, IP4, 0) = FALSE

\* C5: after AddRule, AddRule with the same arguments leaves the store as it
\* is; DeleteRule then leaves no rule for the key, and the store as it was
\* before the first AddRule when the key was absent then.
C5_AddRuleIdempotent ==
  last.op = "AddRule" =>
    LET a == last.args
        key == AddRuleKey(a[1], a[2], a[3], a[4])
        once == firewall[last.sw]
        twice == AddRuleDict(once, a[1], a[2], a[3], a[4])
        deleted == DeleteRuleDict(twice, a[1], a[2], a[3], a[4])
    IN  /\ key \in DOMAIN once
        /\ twice = once
        /\ key \notin DOMAIN deleted
        /\ key \notin DOMAIN last.firewall => deleted = last.firewall
        /\ key \in DOMAIN last.firewall => once = last.firewall

\* AddRule of a rule that is in the store already, beside another rule
C5_Witness ==
  /\ last.op = "AddRule"
  /\ AddRuleKey(last.args[1], last.args[2], last.args[3], last.args[4])
       \in DOMAIN last.firewall
  /\ Cardinality(DOMAIN last.firewall) = 2
  /\ firewall[last.sw] = last.firewall

(***************************************************************************)
(* Claims about the handling of packet-in events, under Spec.              *)
(***************************************************************************)
\* the last operation is the handling of a packet-in event
Handled == last.op = "PacketIn"

\* the event handled last was stopped by none of the firewall gate, the IPv6
\* rule and the link-local gate (the handler changes none of what they read)
PassedGates ==
  /\ ~Blocked(last.sw, last.event)
  /\ last.event.next.nl # "ipv6"
  /\ ~LinkLocal(last.sw, last.event)

\* the hold-down of the session of the last event has elapsed
Elapsed == now - connect_time[last.sw] >= flood_delay

\* the messages sent hold a flood command
FloodSent == \E i \in 1 .. Len(sent) : \E j \in 1 .. Len(sent[i].actions) :
               sent[i].actions[j] = OFPP_FLOOD

\* the messages sent hold a flow with an output action
ForwardSent == \E i \in 1 .. Len(sent) :
                 sent[i].type = "flow_mod" /\ sent[i].actions # <<>>

\* C6: a packet-in whose network layer is IPv6 is dropped: the handler sends
\* no flood command, installs no flow and sends no output action, at most the
\* release of the buffered packet.
C6_Ipv6Dropped ==
  (Handled /\ last.event.next.nl = "ipv6") =>
    /\ ~FloodSent
    /\ ~ForwardSent
    /\ Len(sent) <= 1
    /\ \A i \in 1 .. Len(sent) :
         sent[i].type = "packet_out" /\ sent[i].actions = <<>>

\* an IPv6 packet to the broadcast address, buffered, after the hold-down, in
\* transparent mode, to a session that knows its source already
C6_Witness ==
  /\ Handled
  /\ last.event.next.nl = "ipv6"
  /\ last.event.dst = BROADCAST
  /\ last.event.buffer_id = "buf"
  /\ transparent[last.sw]
  /\ Elapsed
  /\ last.event.src \in DOMAIN last.macToPort
  /\ sent = <<PacketOut(<<>>, "buf", last.event.port)>>

C8_UnknownDestinationFlooded ==
  (/\ Handled
   /\ PassedGates
   /\ ~is_multicast(last.event.dst)
   /\ last.event.dst \notin DOMAIN last.macToPort
   /\ last.event.dst # last.event.src) =>
    /\ Elapsed => sent = <<PacketOut(<<OFPP_FLOOD>>, last.event.buffer_id,
                                     last.event.port)>>
    /\ ~ForwardSent
    /\ DOMAIN macToPort[last.sw] = (DOMAIN last.macToPort) \cup {last.event.src}
    /\ last.event.dst \notin DOMAIN macToPort[last.sw]
    /\ macToPort[last.sw][last.event.src] = last.event.port
    /\ \A m \in (DOMAIN last.macToPort) \ {last.event.src} :
         macToPort[last.sw][m] = last.macToPort[m]

\* with an empty table, the packet from U1 on port 1 to U2 is flooded and the
\* table is U1 -> 1
C8_Witness ==
  /\ Handled
  /\ PassedGates
  /\ last.macToPort = EmptyTable
  /\ last.event.src = U1 /\ last.event.port = 1 /\ last.event.dst = U2
  /\ FloodSent
  /\ macToPort[last.sw] = [m \in {U1} |-> 1]

\* C9: a packet-in that passes the gates and whose unicast destination is
\* learned on the input port of the packet makes the handler send exactly one
\* message, a flow with idle and hard timeout 10 and no action; no flood, no
\* flow with an output.
C9_LoopGuard ==
  (/\ Handled
   /\ PassedGates
   /\ ~is_multicast(last.event.dst)
   /\ last.event.dst \in DOMAIN macToPort[last.sw]
   /\ macToPort[last.sw][last.event.dst] = last.event.port) =>
    /\ Len(sent) = 1
    /\ sent[1].type = "flow_mod"
    /\ sent[1].idle_timeout = 10
    /\ sent[1].hard_timeout = 10
    /\ sent[1].actions = <<>>
    /\ ~FloodSent
    /\ ~ForwardSent

\* a packet to another host that was learned on the port the packet came in
C9_Witness ==
  /\ Handled
  /\ PassedGates
  /\ last.event.dst # last.event.src
  /\ last.event.dst \in DOMAIN last.macToPort
  /\ last.macToPort[last.event.dst] = last.event.port
  /\ Len(sent) = 1
  /\ sent[1].type = "flow_mod"
  /\ sent[1].hard_timeout = 10

\* the handler of the last event called flood()
FloodCalled ==
  /\ Handled
  /\ PassedGates
  /\ \/ is_multicast(last.event.dst)
     \/ last.event.dst \notin DOMAIN macToPort[last.sw]

\* the state part of C10
C10_FloodCalls ==
  FloodCalled =>
    /\ ~Elapsed => /\ ~FloodSent
                   /\ \A i \in 1 .. Len(sent) : sent[i].actions = <<>>
                   /\ hold_down_expired[last.sw] = last.hold_down_expired
    /\ Elapsed => /\ FloodSent
                  /\ hold_down_expired[last.sw] = TRUE
    /\ last.hold_down_expired => FloodSent

\* C10: a call of flood() before the hold-down has elapsed sends no flood
\* action and leaves hold_down_expired as it is; a call at or after the delay
\* sends the flood command and leaves the flag true; a session's flag, once
\* true, stays true, and every call of flood() from then on sends the flood
\* command.
C10_FloodHoldDown ==
  /\ []C10_FloodCalls
  /\ [][\A sw \in Switches : hold_down_expired[sw] => hold_down_expired'[sw]]_vars

\* the first flood of a session with a delay, at the very time the delay has
\* elapsed
C10_Witness ==
  /\ FloodCalled
  /\ flood_delay >= 1
  /\ now - connect_time[last.sw] = flood_delay
  /\ last.hold_down_expired = FALSE
  /\ hold_down_expired[last.sw] = TRUE
  /\ FloodSent


\* C11: the handling of a packet-in event sends no message or one message on
\* the connection, on every path of the handler.
C11_AtMostOneCommand ==
  Handled => Len(sent) <= 1

\* the loop guard on a buffered packet: one message, the discard flow
C11_Witness ==
  /\ Handled
  /\ PassedGates
  /\ last.event.buffer_id = "buf"
  /\ ~is_multicast(last.event.dst)
  /\ last.event.dst \in DOMAIN macToPort[last.sw]
  /\ macToPort[last.sw][last.event.dst] = last.event.port
  /\ Len(sent) = 1


(***************************************************************************)
(* Claims about the sessions of two switches, under SpecIso.               *)
(***************************************************************************)
\* the decisions of the handler of the last event, by the tables of its own
\* session alone
C12_OwnTables ==
  Handled =>
    LET sw == last.sw
        e == last.event
        own == DOMAIN firewall[sw]
        blocked == /\ e.next.nl = "ipv4"
                   /\ \/ <<sw, e.next.srcip, e.next.dstip>> \in own
                      \/ <<sw, e.next.dstip,
                             IF e.next.tcp THEN e.next.dstport ELSE 0>> \in own
        known == e.dst \in DOMAIN macToPort[sw]
    IN  /\ blocked => sent = <<PacketOut(<<>>, e.buffer_id, e.port)>>
        /\ (~blocked /\ known /\ macToPort[sw][e.dst] # e.port) =>
             /\ Len(sent) = 1
             /\ sent[1].type = "flow_mod"
             /\ sent[1].actions = <<macToPort[sw][e.dst]>>
        /\ (~blocked /\ known /\ macToPort[sw][e.dst] = e.port) =>
             /\ Len(sent) = 1
             /\ sent[1].type = "flow_mod"
             /\ sent[1].actions = <<>>
        /\ (~blocked /\ ~known) =>
             (FloodSent <=> now - connect_time[sw] >= flood_delay)
        /\ macToPort[sw] = seen[sw]

\* C12: a step changes the learning table, the firewall table and the
\* hold-down flag of no session but the one that handles the event or the
\* rule operation (or that is created), and the handler decides by the
\* tables of its own session.
C12_SessionIsolation ==
  /\ []C12_OwnTables
  /\ [][\A sw \in Switches :
          (\/ macToPort'[sw] # macToPort[sw]
           \/ firewall'[sw] # firewall[sw]
           \/ hold_down_expired'[sw] # hold_down_expired[sw]) =>
            IF last' # NoOp THEN last'.sw = sw
            ELSE sw \in up' /\ sw \notin up]_vars

\* the session of s2 forwards a packet that the session of s1, whose tables
\* differ, would drop
C12_Witness ==
  /\ Handled
  /\ last.sw = "s2"
  /\ up = Switches
  /\ <<"s1", IP1, IP4>> \in DOMAIN firewall["s1"]
  /\ <<"s2", IP1, IP4>> \notin DOMAIN firewall["s2"]
  /\ macToPort["s1"] # macToPort["s2"]
  /\ hold_down_expired["s1"] # hold_down_expired["s2"]
  /\ ForwardSent


(***************************************************************************)
(* Claims about the start and the gates of the handler, under Spec.        *)
(***************************************************************************)
\* the state part of C13
C13_FatalState ==
  /\ phase = "fatal" =>
       /\ up = {}
       /\ last = NoOp
       /\ sent = <<>>
       /\ \A sw \in Switches : macToPort[sw] = EmptyTable /\ firewall[sw] = EmptyDict
  /\ phase = "running" => flood_delay \in 0 .. MaxDelay
  /\ up # {} => phase = "running"

\* C13: launch with a hold_down that is no number or is negative ends in the
\* fatal state, where no dispatcher is registered, no session is ever created
\* and no packet-in is ever handled; launch with the decimal text of a number
\* >= 0 registers the dispatcher, with that number as the flood delay.
C13_InvalidHoldDownFatal ==
  /\ []C13_FatalState
  /\ [][/\ phase = "fatal" => phase' = "fatal"
        /\ \A t \in BOOLEAN, text \in HoldDownTexts :
             Launch(t, ParseInt(text)) =>
               IF \E n \in 0 .. MaxDelay : text = Decimal(n)
               THEN /\ phase' = "running"
                    /\ l2_transparent' = t
                    /\ \E n \in 0 .. MaxDelay : text = Decimal(n) /\ flood_delay' = n
               ELSE phase' = "fatal"]_vars

\* the fatal state after launch with hold_down = -1
C13_Witness ==
  /\ phase = "fatal"
  /\ flood_delay = -1
  /\ up = {}


C15_LinkLocalGate ==
  (/\ Handled
   /\ ~Blocked(last.sw, last.event)
   /\ last.event.next.nl # "ipv6"
   /\ last.event.next.nl = "lldp" \/ isBridgeFiltered(last.event.dst)) =>
    IF ~transparent[last.sw]
    THEN /\ sent = IF last.event.buffer_id = "None" THEN <<>>
                   ELSE <<PacketOut(<<>>, last.event.buffer_id, last.event.port)>>
         /\ ~FloodSent
         /\ \A i \in 1 .. Len(sent) : sent[i].type # "flow_mod"
    ELSE IF \/ is_multicast(last.event.dst)
            \/ last.event.dst \notin DOMAIN macToPort[last.sw]
         THEN sent = <<PacketOut(IF Elapsed THEN <<OFPP_FLOOD>> ELSE <<>>,
                                 last.event.buffer_id, last.event.port)>>
         ELSE IF macToPort[last.sw][last.event.dst] = last.event.port
              THEN sent = <<FlowMod(from_packet(last.event, 0), 10, 10, <<>>,
                                    last.event.buffer_id)>>
              ELSE sent = <<FlowMod(from_packet(last.event, last.event.port),
                                    10, 30,
                                    <<macToPort[last.sw][last.event.dst]>>,
                                    last.event.buffer_id)>>

\* a transparent session floods a frame to the spanning tree address
C15_Witness ==
  /\ Handled
  /\ transparent[last.sw]
  /\ ~Blocked(last.sw, last.event)
  /\ last.event.next.nl \in {"arp", "other", "lldp"}
  /\ last.event.dst = STP
  /\ isBridgeFiltered(last.event.dst)
  /\ Elapsed
  /\ FloodSent


\* the state part of C16, for the packet-in handled last
C16_ForwardCase ==
  /\ Handled
  /\ PassedGates
  /\ ~is_multicast(last.event.dst)
  /\ last.event.dst \in DOMAIN seen[last.sw]
  /\ seen[last.sw][last.event.dst] # last.event.port

\* C16: a packet-in that passes the gates, arrives on port q and has a unicast
\* destination whose most recent packet as a source arrived on a port p # q
\* makes the handler send exactly one message, the flow with idle timeout 10,
\* hard timeout 30 and the output to p, and no flood; a flow with an output is
\* sent in no other case, so its output port is the table's entry of the
\* destination and is not the input port.
C16_ForwardAfterLearning ==
  /\ C16_ForwardCase =>
       /\ sent = <<FlowMod(from_packet(last.event, last.event.port), 10, 30,
                           <<seen[last.sw][last.event.dst]>>,
                           last.event.buffer_id)>>
       /\ ~FloodSent
  /\ ForwardSent =>
       /\ C16_ForwardCase
       /\ Len(sent) = 1
       /\ sent[1].actions = <<macToPort[last.sw][last.event.dst]>>
       /\ sent[1].actions[1] # last.event.port

\* a packet from port 2 to a host that the table had on port 2 as well before
\* the host sent from port 1: the flow outputs to port 1
C16_Witness ==
  /\ C16_ForwardCase
  /\ ForwardSent
  /\ last.event.port = 2
  /\ last.event.dst # last.event.src
  /\ seen[last.sw][last.event.dst] = 1
  /\ sent[1].actions = <<1>>
  /\ sent[1].idle_timeout = 10
  /\ sent[1].hard_timeout = 30
  /\ last.event.src \in DOMAIN last.macToPort
  /\ last.macToPort[last.event.src] = 1


\* the session state that a call of flood() in the handler of the last event
\* leaves: the flag as before the event, the table as the learning step made it
C17_StateAsLearned ==
  /\ hold_down_expired[last.sw] = last.hold_down_expired
  /\ macToPort[last.sw] =
       [m \in (DOMAIN last.macToPort) \cup {last.event.src} |->
          IF m = last.event.src THEN last.event.port ELSE last.macToPort[m]]

\* C17 as stated: a call of flood() before the hold-down has elapsed sends no
\* message at all and changes no session state.
C17_HoldDownSendsNothing ==
  (FloodCalled /\ ~Elapsed) => (sent = <<>> /\ C17_StateAsLearned)

\* C17: a call of flood() before the hold-down has elapsed sends exactly one
\* message, a packet_out for the buffer and the input port of the event with
\* no action, so that nothing is flooded, and changes no session state.
C17_HoldDownSendsEmptyPacketOut ==
  (FloodCalled /\ ~Elapsed) =>
    /\ sent = <<PacketOut(<<>>, last.event.buffer_id, last.event.port)>>
    /\ ~FloodSent
    /\ C17_StateAsLearned

\* a packet that is not buffered, to an unknown unicast destination, during
\* the hold-down: one packet_out with no action
C17_Witness ==
  /\ FloodCalled
  /\ ~Elapsed
  /\ ~is_multicast(last.event.dst)
  /\ last.event.buffer_id = "None"
  /\ Len(sent) = 1
  /\ sent[1].type = "packet_out"
  /\ sent[1].actions = <<>>
  /\ hold_down_expired[last.sw] = FALSE


(***************************************************************************)
(* The rule with source and port, under SpecFW.                            *)
(***************************************************************************)
\* C18: AddRule with a source that is not the wildcard and a port that is not
\* 0 stores the rule under the key of four items, which CheckRule never looks
\* up: when no rule added as a host pair for (switch, source, destination)
\* and none added as a destination service for (switch, destination, port)
\* is in the store, CheckRule with the arguments of the AddRule answers False,
\* and every CheckRule query has the answer it had before the AddRule.
C18_FullTupleNeverConsulted ==
  (/\ last.op = "AddRule"
   /\ last.args[2] # 0
   /\ last.args[4] # 0) =>
    LET a == last.args
    IN  /\ <<a[1], a[2], a[3], a[4]>> \in DOMAIN firewall[last.sw]
        /\ DOMAIN firewall[last.sw] =
             (DOMAIN last.firewall) \cup {<<a[1], a[2], a[3], a[4]>>}
        /\ (/\ <<"HostPair", <<a[1], a[2], a[3]>>>> \notin added[last.sw]
            /\ <<"DestService", <<a[1], a[3], a[4]>>>> \notin added[last.sw]) =>
             CheckRule(firewall[last.sw], a[1], a[2], a[3], a[4]) = FALSE
        /\ \A w \in Switches, s \in Addrs, d \in Addrs, p \in DstPorts :
             CheckRule(firewall[last.sw], w, s, d, p)
               = CheckRule(last.firewall, w, s, d, p)

\* AddRule(s1, 10.0.0.1, 10.0.0.3, 80) on a store that holds the static host
\* pair rule only: the rule is stored and the query of its packet is allowed
C18_Witness ==
  /\ last.op = "AddRule"
  /\ last.args = <<S1, IP1, IP3, HTTP>>
  /\ DOMAIN last.firewall = {<<S1, IP1, IP4>>}
  /\ <<S1, IP1, IP3, HTTP>> \in DOMAIN firewall[S1]
  /\ firewall[S1][<<S1, IP1, IP3, HTTP>>] = TRUE
  /\ CheckRule(firewall[S1], S1, IP1, IP3, HTTP) = FALSE


(***************************************************************************)
(* Claims about the firewall and the learning table in the handler, under  *)
(* Spec.                                                                   *)
(***************************************************************************)
\* what the handler of the last event sends when the firewall gate is left
\* out: a function of the event, the mode, the clock and the table only
C19_SentWithoutFirewall ==
  IF /\ ~transparent[last.sw]
     /\ last.event.next.nl = "lldp" \/ isBridgeFiltered(last.event.dst)
  THEN IF last.event.buffer_id = "None" THEN <<>>
       ELSE <<PacketOut(<<>>, last.event.buffer_id, last.event.port)>>
  ELSE IF \/ is_multicast(last.event.dst)
          \/ last.event.dst \notin (DOMAIN last.macToPort) \cup {last.event.src}
       THEN <<PacketOut(IF Elapsed THEN <<OFPP_FLOOD>> ELSE <<>>,
                        last.event.buffer_id, last.event.port)>>
       ELSE LET port == IF last.event.dst = last.event.src THEN last.event.port
                        ELSE last.macToPort[last.event.dst]
            IN  IF port = last.event.port
                THEN <<FlowMod(from_packet(last.event, 0), 10, 10, <<>>,
                               last.event.buffer_id)>>
                ELSE <<FlowMod(from_packet(last.event, last.event.port), 10, 30,
                               <<port>>, last.event.buffer_id)>>

\* C19: for a packet-in that is neither IPv4 nor IPv6 (ARP, LLDP, any other
\* type), what the handler sends and the session state it leaves are given
\* by the event, the mode, the clock and the state before the event, the same
\* for every content of the firewall; an ARP packet is not dropped for its
\* protocol addresses being those of a host pair rule.
C19_FirewallIgnoresNonIPv4 ==
  (Handled /\ last.event.next.nl \in {"arp", "other", "lldp"}) =>
    /\ sent = C19_SentWithoutFirewall
    /\ macToPort[last.sw] =
         [m \in (DOMAIN last.macToPort) \cup {last.event.src} |->
            IF m = last.event.src THEN last.event.port ELSE last.macToPort[m]]
    /\ hold_down_expired[last.sw] =
         (last.hold_down_expired \/ FloodSent)

\* an ARP request from 10.0.0.1 for 10.0.0.4, broadcast, with the host pair
\* rule for these addresses in the store: flooded
C19_Witness ==
  /\ Handled
  /\ last.event.next.nl = "arp"
  /\ last.event.next.srcip = IP1
  /\ last.event.next.dstip = IP4
  /\ last.event.dst = BROADCAST
  /\ <<last.sw, IP1, IP4>> \in DOMAIN firewall[last.sw]
  /\ CheckRule(firewall[last.sw], last.sw, IP1, IP4, 0) = TRUE
  /\ FloodSent


\* C20: a packet-in that passes the gates and whose unicast destination is its
\* own source finds the destination in the table on the input port, the
\* source being learned before the lookup: the handler sends the discard
\* flow with idle and hard timeout 10, never a flood and never a flow with an
\* output, whatever the table held before the event.
C20_SelfAddressedLoopGuard ==
  (/\ Handled
   /\ PassedGates
   /\ ~is_multicast(last.event.dst)
   /\ last.event.dst = last.event.src) =>
    /\ last.event.dst \in DOMAIN macToPort[last.sw]
    /\ macToPort[last.sw][last.event.dst] = last.event.port
    /\ sent = <<FlowMod(from_packet(last.event, 0), 10, 10, <<>>,
                        last.event.buffer_id)>>
    /\ ~FloodSent
    /\ ~ForwardSent
    /\ hold_down_expired[last.sw] = last.hold_down_expired

\* a packet to its own source address from a host that the table had on the
\* other port
C20_Witness ==
  /\ Handled
  /\ PassedGates
  /\ last.event.dst = last.event.src
  /\ last.event.src \in DOMAIN last.macToPort
  /\ last.macToPort[last.event.src] # last.event.port
  /\ Len(sent) = 1
  /\ sent[1].type = "flow_mod"
  /\ sent[1].actions = <<>>
  /\ sent[1].hard_timeout = 10

====
